---- MODULE Spec2Model ----
(***************************************************************************)
(* Anti-nuke bot (main.py): audit-log attribution, the punishment ledger   *)
(* punished_users, enforce / release, and the periodic punish_cleanup.     *)
(* Coroutines run on one event loop: code between two awaits is one atomic *)
(* step, every await is a point where other tasks may run.  A platform     *)
(* role call is two steps: the platform applies it, then the awaiting      *)
(* coroutine resumes.  member.roles is read from the same role table the   *)
(* platform call updates.  Time is in seconds.                             *)
(***************************************************************************)
EXTENDS Integers, Sequences, FiniteSets, TLC

None == "None"

\* ---------- Config ----------
SUPERUSER_ID == "su"
AUDIT_WINDOW == 30
PUNISH_DURATION == 1800
AuditLimit == 6

\* ---------- Bounds ----------
MaxTasks == 2
MaxCalls == 3
MaxTicks == 1
MaxSweeps == 2
MaxAudit == 7
MaxVaried == 2
MaxResolveTicks == 1

\* ---------- The platform the bot is connected to ----------
Users == {"su", "bot", "own", "a1"}
BotGuilds == <<"g1", "g2", "g3", "g4">>
Guilds == {BotGuilds[n] : n \in 1..Len(BotGuilds)}
Actions == {"channel_create", "channel_delete", "role_create", "role_delete"}
Targets == {1, 2}
SweepPeriod == 60
TickSteps == {SweepPeriod, PUNISH_DURATION}
EventTargets == {1}
Tasks == 1..MaxTasks

\* member.bot
IsBot(uid) == uid = "bot"

\* guild.owner_id
OwnerId(g) == IF g = "g2" THEN "su" ELSE "own"

\* guild.get_role(PUNISH_ROLE_ID) is not None
RoleResolves(g) == g # "g4"

\* guild.get_role(PUNISH_ROLE_ID): the position of the punish role
GetRole(g) == IF g = "g3" THEN 2 ELSE 1

\* me.top_role: the positions the bot's highest role takes in g
TopRoles(g) ==
    CASE g = "g1" -> {2}
      [] g = "g2" -> {3}
      [] g = "g3" -> {1, 2}
      [] OTHER -> {1}

\* the members of a guild
GuildMembers(g) == IF g = "g3" THEN Users \ {"own"} ELSE Users

\* guild.get_member(uid)
GetMember(g, uid) == IF uid \in GuildMembers(g) THEN uid ELSE None

\* interaction.guild.channels, in order
GuildChannels == <<"text", "voice", "category">>

ChannelSet == {GuildChannels[n] : n \in 1..Len(GuildChannels)}

\* isinstance(channel, (discord.TextChannel, discord.VoiceChannel))
IsLockable(ch) == ch \in {"text", "voice"}

\* the guilds the lockdown commands are invoked in
CommandGuilds == {"g1", "g2"}

VARIABLES
    clock,            \* _now_utc()
    ticks,            \* number of clock advances so far
    punished_users,   \* the ledger: a dict, kept as its items in insertion order
    roles,            \* roles[g]: the members holding the punish role in g
    task,             \* task[t]: the coroutine running in slot t
    calls,            \* number of handler invocations so far
    sweep,            \* the punish_cleanup loop
    sweeps,           \* number of sweeps started so far (in the timed
                      \* specification: since the clock last advanced)
    out,              \* what the step just taken returned / reported, if anything
    auditLog,         \* the audit log of the platform, newest first
    overwrites,       \* overwrites[g][ch]: send_messages of the default role on ch
    solo,             \* history: a release call sequence running with no other step
    race              \* history: an enforce that another one for the same member
                      \* overtook while both were awaiting add_roles

vars == <<clock, ticks, punished_users, roles, task, calls, sweep, sweeps, out,
          auditLog, overwrites, solo, race>>

\* ---------- dict operations on punished_users ----------
DictKeys(d) == {d[n].id : n \in 1..Len(d)}

DictHas(d, k) == k \in DictKeys(d)

DictGet(d, k) == d[CHOOSE n \in 1..Len(d) : d[n].id = k].exp

\* DictSet storing a second item under a key already there
DictSet_Append(d, k, v) == Append(d, [id |-> k, exp |-> v])

\* d[k] = v: an existing key keeps its place, a new key goes last
DictSet(d, k, v) ==
    IF DictHas(d, k)
    THEN [n \in 1..Len(d) |-> IF d[n].id = k THEN [id |-> k, exp |-> v] ELSE d[n]]
    ELSE Append(d, [id |-> k, exp |-> v])

\* d.pop(k, None)
DictPop(d, k) == SelectSeq(d, LAMBDA e : e.id # k)

\* the ledger entries, as a set
Items(d) == {d[n] : n \in 1..Len(d)}

\* number of items stored under key k
DictCount(d, k) == Cardinality({n \in 1..Len(d) : d[n].id = k})

\* ---------- task records ----------
Idle == [op |-> "idle", pc |-> "idle", guild |-> None, action |-> None,
         target |-> 0, member |-> None, invoker |-> None]

NoOut == [op |-> None, guild |-> None, member |-> None, err |-> None]

Return(t, err) ==
    /\ out' = [op |-> task[t].op, guild |-> task[t].guild,
               member |-> task[t].member, err |-> err]
    /\ task' = [task EXCEPT ![t] = Idle]

\* ---------- history: release calls that run back to back ----------
\* solo follows a release by the superuser from its call on, for as long as
\* every step taken is a step of that call or of a second call for the same
\* member and guild made right after the first has returned: n is 1 or 2,
\* err1 and err2 what the calls returned, revokes the remove_roles calls the
\* current call has issued, bare whether at the call the member had neither
\* the role in that guild nor a ledger entry, had whether at the first call it
\* had both
NoSolo == [n |-> 0, t |-> 0, member |-> None, guild |-> None, pc |-> "none",
           err1 |-> None, err2 |-> None, revokes |-> 0, bare |-> FALSE,
           had |-> FALSE]

SoloCall(t, invoker, member, g) ==
    LET running == task'[t].op = "unpunish"
        bare == member \notin roles[g] /\ ~DictHas(punished_users, member)
        second == /\ solo.n = 1
                  /\ solo.pc = "returned"
                  /\ solo.member = member
                  /\ solo.guild = g
    IN  IF invoker # SUPERUSER_ID THEN NoSolo
        ELSE IF second
        THEN [solo EXCEPT !.n = 2, !.t = t,
                          !.pc = IF running THEN "running" ELSE "returned",
                          !.err2 = IF running THEN None ELSE out'.err,
                          !.revokes = IF running THEN 1 ELSE 0,
                          !.bare = bare]
        ELSE [n |-> 1, t |-> t, member |-> member, guild |-> g,
              pc |-> IF running THEN "running" ELSE "returned",
              err1 |-> IF running THEN None ELSE out'.err, err2 |-> None,
              revokes |-> IF running THEN 1 ELSE 0, bare |-> bare,
              had |-> member \in roles[g] /\ DictHas(punished_users, member)]

SoloStep(t) ==
    IF solo.pc = "running" /\ solo.t = t
    THEN IF task'[t].op = "idle"
         THEN IF solo.n = 1 THEN [solo EXCEPT !.pc = "returned", !.err1 = out'.err]
              ELSE [solo EXCEPT !.pc = "returned", !.err2 = out'.err]
         ELSE solo
    ELSE NoSolo

\* race follows the first of two enforce calls for one member to succeed
\* while the other (task t) is still awaiting add_roles; guild is the guild
\* of the call that succeeded
NoRace == [on |-> FALSE, t |-> 0, member |-> None, guild |-> None]

\* the tasks other than t that await add_roles for the member of task t
Peers(t) ==
    {u \in Tasks \ {t} : /\ task[u].pc \in {"add_roles", "add_roles_ok"}
                         /\ task[u].member = task[t].member}

\* race after the enforce in task t has succeeded
RaceAfterResume(t) ==
    IF race.on
    THEN IF race.t = t THEN NoRace ELSE race
    ELSE IF Peers(t) = {} THEN NoRace
    ELSE [on |-> TRUE, t |-> CHOOSE u \in Peers(t) : \A v \in Peers(t) : u <= v,
          member |-> task[t].member, guild |-> task[t].guild]

\* race after the grant of task t has failed
RaceAfterFail(t) == IF race.on /\ race.t = t THEN NoRace ELSE race

\* ---------- Helpers ----------
\* Recent with < for <=
Recent_Strict(entry, now) == (now - entry.created_at) < AUDIT_WINDOW

\* _recent(entry), with _now_utc() = now
Recent(entry, now) == (now - entry.created_at) <= AUDIT_WINDOW

\* guild.audit_logs(limit=limit, action=action): the platform's answer, the
\* newest `limit` entries of that guild and action, newest first
AuditLogs(log, g, limit, action) ==
    LET mine == SelectSeq(log, LAMBDA e : e.guild = g /\ e.action = action)
    IN  IF Len(mine) <= limit THEN mine ELSE SubSeq(mine, 1, limit)

\* the loop of _get_actor over the delivered entries, from entry n on, up to
\* its first return or await: a Member is returned, a User is handed to
\* guild.fetch_member, an entry with neither falls through to the next entry
RECURSIVE ScanEntries(_, _, _, _)
ScanEntries(entries, n, target_id, now) ==
    IF n > Len(entries) THEN [kind |-> "none", id |-> None]
    ELSE LET entry == entries[n] IN
         IF entry.target = target_id /\ Recent(entry, now)
         THEN IF entry.kind = "Member" THEN [kind |-> "member", id |-> entry.user]
              ELSE IF entry.kind = "User" THEN [kind |-> "user", id |-> entry.user]
              ELSE ScanEntries(entries, n + 1, target_id, now)
         ELSE ScanEntries(entries, n + 1, target_id, now)

\* ---------- _add_punish_role ----------
\* FirstSkip without the superuser check of lines 49-50
FirstSkip_NoSuperuser(member, g) ==
    IF ~RoleResolves(g) THEN "Punish role not found."
    ELSE IF IsBot(member) THEN "Actor is a bot; skipping."
    ELSE IF OwnerId(g) = member THEN "Actor is the guild owner; skipping."
    ELSE None

\* lines 41-50: the checks before the bot's own member is looked up
FirstSkip(member, g) ==
    IF ~RoleResolves(g) THEN "Punish role not found."
    ELSE IF IsBot(member) THEN "Actor is a bot; skipping."
    ELSE IF OwnerId(g) = member THEN "Actor is the guild owner; skipping."
    ELSE IF member = SUPERUSER_ID THEN "Actor is the superuser; skipping."
    ELSE None

\* HierarchySkip with < for <=
HierarchySkip_Strict(g, top) ==
    IF top < GetRole(g) THEN "My top role is not above the punish role."
    ELSE None

\* line 53: me.top_role <= role
HierarchySkip(g, top) ==
    IF top <= GetRole(g) THEN "My top role is not above the punish role."
    ELSE None

\* lines 41-57 from the call to the first await or return; meCached says
\* whether guild.me is set, top is me.top_role; the handler's locals action
\* and target are dead from here on
AddPunishRole(t, member, g, meCached, top) ==
    LET started == [task[t] EXCEPT !.member = member, !.action = None, !.target = 0] IN
    IF FirstSkip(member, g) # None
    THEN /\ out' = [op |-> "event", guild |-> g, member |-> member,
                    err |-> FirstSkip(member, g)]
         /\ task' = [task EXCEPT ![t] = Idle]
    ELSE IF ~meCached
    THEN /\ task' = [task EXCEPT ![t] = [started EXCEPT !.pc = "fetch_me"]]
         /\ out' = NoOut
    ELSE IF HierarchySkip(g, top) # None
    THEN /\ out' = [op |-> "event", guild |-> g, member |-> member,
                    err |-> HierarchySkip(g, top)]
         /\ task' = [task EXCEPT ![t] = Idle]
    ELSE /\ task' = [task EXCEPT ![t] = [started EXCEPT !.pc = "add_roles"]]
         /\ out' = NoOut

\* line 52: guild.fetch_member(bot.user.id) answers
FetchMeReply(t, top) ==
    /\ task[t].pc = "fetch_me"
    /\ IF HierarchySkip(task[t].guild, top) # None
       THEN Return(t, HierarchySkip(task[t].guild, top))
       ELSE /\ task' = [task EXCEPT ![t].pc = "add_roles"]
            /\ out' = NoOut
    /\ UNCHANGED <<clock, ticks, punished_users, roles, calls, sweep, sweeps, auditLog, overwrites, race>>
    /\ solo' = NoSolo

\* line 52: guild.fetch_member(bot.user.id) raises; nothing catches it
FetchMeRaise(t) ==
    /\ task[t].pc = "fetch_me"
    /\ Return(t, "raised")
    /\ UNCHANGED <<clock, ticks, punished_users, roles, calls, sweep, sweeps, auditLog, overwrites, race>>
    /\ solo' = NoSolo

\* line 57: the platform applies member.add_roles
GrantApplied(t) ==
    /\ task[t].pc = "add_roles"
    /\ roles' = [roles EXCEPT ![task[t].guild] = @ \cup {task[t].member}]
    /\ task' = [task EXCEPT ![t].pc = "add_roles_ok"]
    /\ out' = NoOut
    /\ UNCHANGED <<clock, ticks, punished_users, calls, sweep, sweeps, auditLog, overwrites, race>>
    /\ solo' = NoSolo

\* GrantFailed with line 58 moved before the await of line 57
GrantFailed_Recorded(t, exc) ==
    /\ task[t].pc = "add_roles"
    /\ Return(t, IF exc = "Forbidden" THEN "Missing permissions to assign role."
                 ELSE "HTTP error while assigning role.")
    /\ punished_users' = DictSet(punished_users, task[t].member, clock + PUNISH_DURATION)
    /\ UNCHANGED <<clock, ticks, roles, calls, sweep, sweeps, auditLog, overwrites>>
    /\ solo' = NoSolo
    /\ race' = RaceAfterFail(t)

\* lines 60-63: member.add_roles raises Forbidden or HTTPException
GrantFailed(t, exc) ==
    /\ task[t].pc = "add_roles"
    /\ Return(t, IF exc = "Forbidden" THEN "Missing permissions to assign role."
                 ELSE "HTTP error while assigning role.")
    /\ UNCHANGED <<clock, ticks, punished_users, roles, calls, sweep, sweeps, auditLog, overwrites>>
    /\ solo' = NoSolo
    /\ race' = RaceAfterFail(t)

\* NewExpiry adding the duration on top of an expiry already stored
NewExpiry_Stacked(d, member, now) ==
    IF DictHas(d, member) THEN DictGet(d, member) + PUNISH_DURATION
    ELSE now + PUNISH_DURATION

\* line 58: the expiry written by a successful enforce
NewExpiry(d, member, now) == now + PUNISH_DURATION

\* line 58: the ledger after a successful enforce
LedgerAfterGrant(d, member, now) == DictSet(d, member, NewExpiry(d, member, now))

\* EnforceResume not waiting for the platform to apply the grant
EnforceResume_Early(t) ==
    /\ task[t].pc \in {"add_roles", "add_roles_ok"}
    /\ punished_users' = DictSet(punished_users, task[t].member, clock + PUNISH_DURATION)
    /\ Return(t, None)
    /\ UNCHANGED <<clock, ticks, roles, calls, sweep, sweeps, auditLog, overwrites>>
    /\ solo' = NoSolo
    /\ race' = RaceAfterResume(t)

\* lines 58-59: the coroutine resumes after add_roles; raced, peer and prev
\* are history: this call is the second to succeed of two that overlapped,
\* the guild of the first, and the expiry the write replaces (-1: none)
EnforceResume(t) ==
    /\ task[t].pc = "add_roles_ok"
    /\ punished_users' = LedgerAfterGrant(punished_users, task[t].member, clock)
    /\ out' = [op |-> task[t].op, guild |-> task[t].guild, member |-> task[t].member,
               err |-> None, raced |-> race.on /\ race.t = t,
               peer |-> IF race.on /\ race.t = t THEN race.guild ELSE None,
               prev |-> IF DictHas(punished_users, task[t].member)
                        THEN DictGet(punished_users, task[t].member) ELSE -1]
    /\ task' = [task EXCEPT ![t] = Idle]
    /\ UNCHANGED <<clock, ticks, roles, calls, sweep, sweeps, auditLog, overwrites>>
    /\ solo' = NoSolo
    /\ race' = RaceAfterResume(t)

\* ---------- _get_actor and the event handlers ----------
\* an audit entry the platform may deliver: who (user, held as a Member, as a
\* bare User, or absent) did what (action) to what (target), and when
Entry(g, action, target, user, kind, created_at) ==
    [guild |-> g, action |-> action, target |-> target, user |-> user,
     kind |-> kind, created_at |-> created_at]

\* the answers of the audit query in the lifecycle specification: nothing, or
\* one entry of the asked guild and action: for the event's target and fresh
\* (by a Member or a bare User), for another target, or outside the window
Replies(g, action, target, now) ==
    {<<>>} \cup
    {<<Entry(g, action, target, user, "Member", now)>> : user \in GuildMembers(g)} \cup
    {<<Entry(g, action, target, user, "User", now)>> : user \in {"a1", "own"}} \cup
    {<<Entry(g, action, target + 1, "a1", "Member", now)>>,
     <<Entry(g, action, target, "a1", "Member", now - AUDIT_WINDOW - 1)>>}

\* a new coroutine takes the first free slot
FreeSlot(t) ==
    /\ task[t].op = "idle"
    /\ \A u \in Tasks : u < t => task[u].op # "idle"

\* lines 127-128 (and 136, 145, 154): the platform delivers a structural
\* change event and its handler awaits guild.audit_logs
EventStart(t, g, action, target) ==
    /\ FreeSlot(t)
    /\ task' = [task EXCEPT ![t] = [op |-> "event", pc |-> "audit_logs", guild |-> g,
                                    action |-> action, target |-> target,
                                    member |-> None, invoker |-> None]]

EventDispatch(t, g, action, target) ==
    /\ calls < MaxCalls
    /\ EventStart(t, g, action, target)
    /\ calls' = calls + 1
    /\ out' = NoOut
    /\ UNCHANGED <<clock, ticks, punished_users, roles, sweep, sweeps, auditLog, overwrites, race>>
    /\ solo' = NoSolo

on_guild_channel_create(t, g, target) == EventDispatch(t, g, "channel_create", target)

on_guild_channel_delete(t, g, target) == EventDispatch(t, g, "channel_delete", target)

on_guild_role_create(t, g, target) == EventDispatch(t, g, "role_create", target)

on_guild_role_delete(t, g, target) == EventDispatch(t, g, "role_delete", target)

\* line 85: guild.audit_logs raises; nothing catches it
AuditRaise(t) ==
    /\ task[t].pc = "audit_logs"
    /\ Return(t, "raised")
    /\ UNCHANGED <<clock, ticks, punished_users, roles, calls, sweep, sweeps, auditLog, overwrites, race>>
    /\ solo' = NoSolo

\* lines 85-95 and 129-130: the audit query answers with `entries`; the
\* handler scans them and, with a Member in hand, enters _add_punish_role
AuditReply(t, entries, meCached, top) ==
    /\ task[t].pc = "audit_logs"
    /\ LET r == ScanEntries(entries, 1, task[t].target, clock) IN
       CASE r.kind = "none" -> Return(t, None)
         [] r.kind = "user" ->
              /\ task' = [task EXCEPT ![t].pc = "fetch_member", ![t].member = r.id,
                                       ![t].action = None, ![t].target = 0]
              /\ out' = NoOut
         [] OTHER -> AddPunishRole(t, r.id, task[t].guild, meCached, top)
    /\ UNCHANGED <<clock, ticks, punished_users, roles, calls, sweep, sweeps, auditLog, overwrites, race>>
    /\ solo' = NoSolo

\* line 92: guild.fetch_member(user.id) returns the member
FetchMemberReply(t, meCached, top) ==
    /\ task[t].pc = "fetch_member"
    /\ task[t].member \in GuildMembers(task[t].guild)
    /\ AddPunishRole(t, task[t].member, task[t].guild, meCached, top)
    /\ UNCHANGED <<clock, ticks, punished_users, roles, calls, sweep, sweeps, auditLog, overwrites, race>>
    /\ solo' = NoSolo

\* lines 93-94: guild.fetch_member raises NotFound: no actor, the handler ends
FetchMemberNotFound(t) ==
    /\ task[t].pc = "fetch_member"
    /\ out' = [op |-> "event", guild |-> task[t].guild, member |-> None,
               err |-> None]
    /\ task' = [task EXCEPT ![t] = Idle]
    /\ UNCHANGED <<clock, ticks, punished_users, roles, calls, sweep, sweeps, auditLog, overwrites, race>>
    /\ solo' = NoSolo

\* line 92: guild.fetch_member raises Forbidden or HTTPException; only
\* NotFound is caught
FetchMemberRaise(t) ==
    /\ task[t].pc = "fetch_member"
    /\ out' = [op |-> "event", guild |-> task[t].guild, member |-> None,
               err |-> "raised"]
    /\ task' = [task EXCEPT ![t] = Idle]
    /\ UNCHANGED <<clock, ticks, punished_users, roles, calls, sweep, sweeps, auditLog, overwrites, race>>
    /\ solo' = NoSolo

\* ---------- the commands ----------
NotAuthorized == "You are not authorized."

\* Authorized letting everybody in
Authorized_Anyone(invoker) == TRUE

\* lines 165, 173, 186, 204: interaction.user.id != SUPERUSER_ID is the
\* rejection
Authorized(invoker) == invoker = SUPERUSER_ID

\* what a command answers, or how it ends: err None is its success message
CmdOut(op, invoker, g, member, err) ==
    [op |-> op, guild |-> g, member |-> member, err |-> err, invoker |-> invoker]

\* a command coroutine returns
CmdReturn(t, err) ==
    /\ out' = CmdOut(task[t].op, task[t].invoker, task[t].guild, task[t].member, err)
    /\ task' = [task EXCEPT ![t] = Idle]

\* ---------- _remove_punish_role and the unpunish command ----------
\* ReleasePop without the pop
ReleasePop_Kept(d, member) == d

\* line 75: punished_users.pop(member.id, None)
ReleasePop(d, member) == DictPop(d, member)

\* lines 173-177 and 68-76: the command up to its first await or its answer
unpunish(t, invoker, member, g) ==
    /\ calls < MaxCalls
    /\ FreeSlot(t)
    /\ member \in GuildMembers(g)
    /\ calls' = calls + 1
    /\ LET cmd == CmdOut("unpunish", invoker, g, member, None) IN
       IF ~Authorized(invoker)
       THEN /\ out' = [cmd EXCEPT !.err = NotAuthorized]
            /\ UNCHANGED <<task, punished_users>>
       ELSE IF ~RoleResolves(g)
       THEN /\ out' = [cmd EXCEPT !.err = "Punish role not found."]
            /\ UNCHANGED <<task, punished_users>>
       ELSE IF member \in roles[g]
       THEN /\ task' = [task EXCEPT ![t] = [op |-> "unpunish", pc |-> "remove_roles",
                                            guild |-> g, action |-> None,
                                            target |-> 0, member |-> member,
                                            invoker |-> invoker]]
            /\ out' = NoOut /\ UNCHANGED punished_users
       ELSE /\ punished_users' = ReleasePop(punished_users, member)
            /\ out' = [cmd EXCEPT !.err = None]
            /\ task' = task
    /\ UNCHANGED <<clock, ticks, roles, sweep, sweeps, auditLog, overwrites, race>>
    /\ solo' = SoloCall(t, invoker, member, g)

\* line 74: the platform applies member.remove_roles
RevokeApplied(t) ==
    /\ task[t].pc = "remove_roles"
    /\ roles' = [roles EXCEPT ![task[t].guild] = @ \ {task[t].member}]
    /\ task' = [task EXCEPT ![t].pc = "remove_roles_ok"]
    /\ out' = NoOut
    /\ UNCHANGED <<clock, ticks, punished_users, calls, sweep, sweeps, auditLog, overwrites, race>>
    /\ solo' = SoloStep(t)

\* RevokeFailed with the pop of line 75 done all the same
RevokeFailed_Popped(t, exc) ==
    /\ task[t].pc = "remove_roles"
    /\ CmdReturn(t, IF exc = "Forbidden" THEN "Missing permissions to remove role."
                    ELSE "HTTP error while removing role.")
    /\ punished_users' = DictPop(punished_users, task[t].member)
    /\ UNCHANGED <<clock, ticks, roles, calls, sweep, sweeps, auditLog, overwrites, race>>
    /\ solo' = SoloStep(t)

\* lines 77-80: member.remove_roles raises Forbidden or HTTPException
RevokeFailed(t, exc) ==
    /\ task[t].pc = "remove_roles"
    /\ CmdReturn(t, IF exc = "Forbidden" THEN "Missing permissions to remove role."
                 ELSE "HTTP error while removing role.")
    /\ UNCHANGED <<clock, ticks, punished_users, roles, calls, sweep, sweeps, auditLog, overwrites, race>>
    /\ solo' = SoloStep(t)

\* lines 75-76: the coroutine resumes after remove_roles
ReleaseResume(t) ==
    /\ task[t].pc = "remove_roles_ok"
    /\ punished_users' = ReleasePop(punished_users, task[t].member)
    /\ CmdReturn(t, None)
    /\ UNCHANGED <<clock, ticks, roles, calls, sweep, sweeps, auditLog, overwrites, race>>
    /\ solo' = SoloStep(t)

\* ---------- ping, lockdown, unlockdown ----------
CommandOps == {"ping", "unpunish", "lockdown", "unlockdown"}

\* lines 164-168: ping answers at once
ping(invoker, g) ==
    /\ calls < MaxCalls
    /\ calls' = calls + 1
    /\ out' = CmdOut("ping", invoker, g, None,
                     IF ~Authorized(invoker) THEN NotAuthorized ELSE None)
    /\ UNCHANGED <<clock, ticks, punished_users, roles, task, sweep, sweeps, auditLog, overwrites, race>>
    /\ solo' = NoSolo

\* the place, from n on, of the next channel the loop of lines 190-191
\* (208-209) does not pass over
RECURSIVE NextLockable(_)
NextLockable(n) ==
    IF n > Len(GuildChannels) THEN n
    ELSE IF IsLockable(GuildChannels[n]) THEN n
    ELSE NextLockable(n + 1)

\* lines 190-199 (208-217) from channel n on, up to the next await of
\* channel.set_permissions or to the closing message; target is the place of
\* the channel the coroutine is at
LockGoesOn(t, rec, n) ==
    IF NextLockable(n) > Len(GuildChannels)
    THEN /\ out' = CmdOut(rec.op, rec.invoker, rec.guild, None, None)
         /\ task' = [task EXCEPT ![t] = Idle]
    ELSE /\ task' = [task EXCEPT ![t] = [rec EXCEPT !.pc = "set_permissions",
                                                    !.target = NextLockable(n)]]
         /\ out' = NoOut

\* lines 186-195 and 204-213: the check of the invoker, then the loop
LockCommand(t, op, invoker, g) ==
    /\ calls < MaxCalls
    /\ FreeSlot(t)
    /\ calls' = calls + 1
    /\ IF ~Authorized(invoker)
       THEN /\ out' = CmdOut(op, invoker, g, None, NotAuthorized)
            /\ task' = task
       ELSE LockGoesOn(t, [op |-> op, pc |-> "call", guild |-> g, action |-> None,
                           target |-> 0, member |-> None, invoker |-> invoker], 1)
    /\ UNCHANGED <<clock, ticks, punished_users, roles, sweep, sweeps, auditLog, overwrites, race>>
    /\ solo' = NoSolo

lockdown(t, invoker, g) == LockCommand(t, "lockdown", invoker, g)

unlockdown(t, invoker, g) == LockCommand(t, "unlockdown", invoker, g)

\* line 195 (213): the platform applies channel.set_permissions with
\* send_messages False (lockdown) or None (unlockdown)
PermApplied(t) ==
    /\ task[t].pc = "set_permissions"
    /\ overwrites' = [overwrites EXCEPT ![task[t].guild][GuildChannels[task[t].target]] =
                          IF task[t].op = "lockdown" THEN "False" ELSE None]
    /\ task' = [task EXCEPT ![t].pc = "set_permissions_ok"]
    /\ out' = NoOut
    /\ UNCHANGED <<clock, ticks, punished_users, roles, calls, sweep, sweeps, auditLog, race>>
    /\ solo' = NoSolo

\* the coroutine resumes after set_permissions and goes on
PermResume(t) ==
    /\ task[t].pc = "set_permissions_ok"
    /\ LockGoesOn(t, task[t], task[t].target + 1)
    /\ UNCHANGED <<clock, ticks, punished_users, roles, calls, sweep, sweeps, auditLog, overwrites, race>>
    /\ solo' = NoSolo

\* lines 196-197 (214-215): set_permissions raises, the loop goes on
PermFailed(t) ==
    /\ task[t].pc = "set_permissions"
    /\ LockGoesOn(t, task[t], task[t].target + 1)
    /\ UNCHANGED <<clock, ticks, punished_users, roles, calls, sweep, sweeps, auditLog, overwrites, race>>
    /\ solo' = NoSolo

\* ---------- punish_cleanup ----------
\* the loop between two runs; popped, attempts, failed and seen are history:
\* the entries the run popped (with their expiry and the time of the pop), the
\* remove_roles calls it issued (present: the user had a ledger entry at that
\* time; live: an unexpired one), those of them that raised, and what it saw
\* in each guild it looked at; stale is history across runs: the revokes
\* that raised in the runs before
Asleep == [pc |-> "sleep", now |-> 0, expired |-> <<>>, i |-> 1, j |-> 0,
           popped |-> {}, attempts |-> {}, failed |-> {}, seen |-> {},
           stale |-> {}]

\* Expired with < for <=
Expired_Strict(d, now) ==
    LET old == SelectSeq(d, LAMBDA e : e.exp < now)
    IN  [n \in 1..Len(old) |-> old[n].id]

\* line 103: the expired keys, in dict order
Expired(d, now) ==
    LET old == SelectSeq(d, LAMBDA e : e.exp <= now)
    IN  [n \in 1..Len(old) |-> old[n].id]

\* NeedsRevoke without the test `role in member.roles`
NeedsRevoke_AnyMember(g, uid, held) ==
    /\ GetMember(g, uid) # None
    /\ RoleResolves(g)

\* line 111 (with 109): the sweep calls remove_roles for uid in g
NeedsRevoke(g, uid, held) ==
    /\ GetMember(g, uid) # None
    /\ RoleResolves(g)
    /\ uid \in held

\* SweepPop without the pop
SweepPop_Kept(d, uid) == d

\* line 106: punished_users.pop(uid, None)
SweepPop(d, uid) == DictPop(d, uid)

\* lines 105-113 from position (i, j) of the two loops to the next await or
\* the end of the run; j = 0 is the pop of line 106, j >= 1 the guild loop
RECURSIVE SweepRun(_, _, _, _)
SweepRun(d, s, held, at) ==
    IF s.i > Len(s.expired) THEN [d |-> d, s |-> [s EXCEPT !.pc = "done"]]
    ELSE LET uid == s.expired[s.i] IN
         IF s.j = 0
         THEN SweepRun(SweepPop(d, uid),
                       [s EXCEPT !.j = 1,
                                 !.popped = IF DictHas(d, uid)
                                            THEN @ \cup {[id |-> uid, exp |-> DictGet(d, uid),
                                                          at |-> at]}
                                            ELSE @],
                       held, at)
         ELSE IF s.j > Len(BotGuilds)
         THEN SweepRun(d, [s EXCEPT !.i = @ + 1, !.j = 0], held, at)
         ELSE LET g == BotGuilds[s.j]
                  saw == [s EXCEPT !.seen = @ \cup {[id |-> uid, guild |-> g,
                                                     held |-> uid \in held[g]]}]
              IN  IF NeedsRevoke(g, uid, held[g])
                  THEN [d |-> d,
                        s |-> [saw EXCEPT !.pc = "remove_roles",
                                          !.attempts = @ \cup
                                              {[id |-> uid, guild |-> g,
                                                present |-> DictHas(d, uid),
                                                live |-> DictHas(d, uid) /\
                                                         DictGet(d, uid) > at]}]]
                  ELSE SweepRun(d, [saw EXCEPT !.j = @ + 1], held, at)

\* the run is suspended in remove_roles, or it is over: the loop sleeps and
\* what the run did is reported
SweepGoesOn(s) ==
    IF s.pc = "done"
    THEN /\ sweep' = [Asleep EXCEPT !.stale = s.stale \cup s.failed]
         /\ out' = [op |-> "punish_cleanup", guild |-> None, member |-> None,
                    err |-> None, run |-> s]
    ELSE /\ sweep' = s
         /\ out' = NoOut

\* lines 102-113: a run of the loop starts
punish_cleanup ==
    /\ sweep.pc = "sleep"
    /\ sweeps < MaxSweeps
    /\ sweeps' = sweeps + 1
    /\ LET r == SweepRun(punished_users,
                         [sweep EXCEPT !.now = clock,
                                       !.expired = Expired(punished_users, clock)],
                         roles, clock)
       IN  /\ punished_users' = r.d
           /\ SweepGoesOn(r.s)
    /\ UNCHANGED <<clock, ticks, roles, task, calls, auditLog, overwrites, race>>
    /\ solo' = NoSolo

\* line 113: the platform applies member.remove_roles
SweepRevokeApplied ==
    /\ sweep.pc = "remove_roles"
    /\ roles' = [roles EXCEPT ![BotGuilds[sweep.j]] = @ \ {sweep.expired[sweep.i]}]
    /\ sweep' = [sweep EXCEPT !.pc = "remove_roles_ok"]
    /\ out' = NoOut
    /\ UNCHANGED <<clock, ticks, punished_users, task, calls, sweeps, auditLog, overwrites, race>>
    /\ solo' = NoSolo

\* lines 113-116: the run resumes after remove_roles, which returned
\* (pc remove_roles_ok) or raised (pc remove_roles), and goes on
SweepContinue(s) ==
    LET r == SweepRun(punished_users, [s EXCEPT !.j = @ + 1], roles, clock)
    IN  /\ punished_users' = r.d
        /\ SweepGoesOn(r.s)
        /\ UNCHANGED <<clock, ticks, roles, task, calls, sweeps, auditLog, overwrites, race>>

SweepResume ==
    /\ sweep.pc = "remove_roles_ok"
    /\ SweepContinue(sweep)
    /\ solo' = NoSolo

\* the revoke that has just raised
Raised(s) == [id |-> s.expired[s.i], guild |-> BotGuilds[s.j]]

\* SweepRevokeFailed letting the exception end the run and stop the loop
SweepRevokeFailed_Abort ==
    /\ sweep.pc = "remove_roles"
    /\ sweep' = [Asleep EXCEPT !.pc = "stopped"]
    /\ out' = [op |-> "punish_cleanup", guild |-> None, member |-> None, err |-> None,
               run |-> [sweep EXCEPT !.pc = "done", !.failed = @ \cup {Raised(sweep)}]]
    /\ UNCHANGED <<clock, ticks, punished_users, roles, task, calls, sweeps, auditLog, overwrites, race>>
    /\ solo' = NoSolo

\* lines 115-116: remove_roles raises; the exception is printed and the loops
\* go on
SweepRevokeFailed ==
    /\ sweep.pc = "remove_roles"
    /\ SweepContinue([sweep EXCEPT !.failed = @ \cup {Raised(sweep)}])
    /\ solo' = NoSolo

\* ---------- the clock ----------
Tick(d) ==
    /\ ticks < MaxTicks
    /\ clock' = clock + d
    /\ ticks' = ticks + 1
    /\ out' = NoOut
    /\ UNCHANGED <<punished_users, roles, task, calls, sweep, sweeps, auditLog, overwrites, race>>
    /\ solo' = NoSolo

\* ---------- the lifecycle specification ----------
Init ==
    /\ clock = 0
    /\ ticks = 0
    /\ punished_users = <<>>
    /\ roles = [g \in Guilds |-> {}]
    /\ task = [t \in Tasks |-> Idle]
    /\ calls = 0
    /\ sweep = Asleep
    /\ sweeps = 0
    /\ out = NoOut
    /\ auditLog = <<>>
    /\ overwrites = [g \in Guilds |-> [ch \in ChannelSet |-> None]]
    /\ solo = NoSolo
    /\ race = NoRace

\* the platform delivers an event
Dispatch ==
    \E t \in Tasks, target \in EventTargets :
       \/ \E g \in Guilds : on_guild_channel_create(t, g, target)
       \/ \E g \in {"g1", "g2"} : on_guild_channel_delete(t, g, target)
       \/ \E g \in {"g1"} : on_guild_role_create(t, g, target)
       \/ \E g \in {"g2"} : on_guild_role_delete(t, g, target)

\* a handler under way takes its next step
HandlerSteps ==
    \/ \E t \in Tasks : AuditRaise(t)
    \/ \E t \in {u \in Tasks : task[u].pc = "audit_logs"}, meCached \in BOOLEAN :
          \E entries \in Replies(task[t].guild, task[t].action, task[t].target, clock),
             top \in TopRoles(task[t].guild) :
             AuditReply(t, entries, meCached, top)
    \/ \E t \in {u \in Tasks : task[u].pc = "fetch_member"}, meCached \in BOOLEAN :
          \E top \in TopRoles(task[t].guild) : FetchMemberReply(t, meCached, top)
    \/ \E t \in Tasks : FetchMemberNotFound(t)
    \/ \E t \in Tasks : FetchMemberRaise(t)
    \/ \E t \in {u \in Tasks : task[u].pc = "fetch_me"} :
          \E top \in TopRoles(task[t].guild) : FetchMeReply(t, top)
    \/ \E t \in Tasks : FetchMeRaise(t)
    \/ \E t \in Tasks : GrantApplied(t)
    \/ \E t \in Tasks, exc \in {"Forbidden", "HTTPException"} : GrantFailed(t, exc)
    \/ \E t \in Tasks : EnforceResume(t)

Handlers == Dispatch \/ HandlerSteps

\* a run under way takes its next step
SweepSteps ==
    \/ SweepRevokeApplied
    \/ SweepResume
    \/ SweepRevokeFailed

Sweeper == punish_cleanup \/ SweepSteps

Commands ==
    \/ \E t \in Tasks, invoker \in {SUPERUSER_ID, "a1"}, member \in Users, g \in Guilds :
          unpunish(t, invoker, member, g)
    \/ \E t \in Tasks : RevokeApplied(t)
    \/ \E t \in Tasks, exc \in {"Forbidden", "HTTPException"} : RevokeFailed(t, exc)
    \/ \E t \in Tasks : ReleaseResume(t)

Next ==
    \/ Handlers
    \/ Sweeper
    \/ Commands
    \/ \E d \in TickSteps : Tick(d)

Spec == Init /\ [][Next]_vars

\* ---------- the specification of _get_actor ----------
\* the entries the platform records: for target 1 or 2 (0: a target without
\* id), by a Member, by a bare User or without user, in guild g1 or g2, of
\* action channel_delete or role_delete
Shapes ==
    {Entry("g1", "channel_delete", 1, "a1", "Member", 0),
     Entry("g1", "channel_delete", 1, "own", "Member", 0),
     Entry("g1", "channel_delete", 2, "a1", "Member", 0),
     Entry("g1", "channel_delete", 2, "own", "Member", 0),
     Entry("g1", "channel_delete", 0, "a1", "Member", 0),
     Entry("g1", "channel_delete", 1, "a1", "User", 0),
     Entry("g1", "channel_delete", 1, None, "NoUser", 0),
     Entry("g1", "role_delete", 1, "own", "Member", 0),
     Entry("g2", "channel_delete", 1, "own", "Member", 0)}

\* the first MaxVaried entries of the log are of any shape, the later ones of
\* this one
Filler == Entry("g1", "channel_delete", 2, "a1", "Member", 0)

ResolveSteps == {AUDIT_WINDOW, AUDIT_WINDOW + 1}

\* the events whose handlers run in this specification
ResolveEvents ==
    {<<"g1", "channel_delete", 1>>, <<"g1", "channel_delete", 2>>,
     <<"g1", "role_delete", 1>>, <<"g2", "channel_delete", 1>>}

\* the platform records an audit entry, stamped with the time
AuditAppend(shape) ==
    /\ Len(auditLog) < MaxAudit
    /\ Len(auditLog) >= MaxVaried => shape = Filler
    /\ auditLog' = <<[shape EXCEPT !.created_at = clock]>> \o auditLog
    /\ out' = NoOut
    /\ UNCHANGED <<clock, ticks, punished_users, roles, task, calls, sweep, sweeps, overwrites, solo, race>>

ResolveTick(d) ==
    /\ ticks < MaxResolveTicks
    /\ clock' = clock + d
    /\ ticks' = ticks + 1
    /\ out' = NoOut
    /\ UNCHANGED <<punished_users, roles, task, calls, sweep, sweeps, auditLog, overwrites, race, solo>>

\* line 137 (and 128, 146, 155): a handler calls _get_actor
GetActorCall(t, g, action, target) ==
    /\ EventStart(t, g, action, target)
    /\ out' = NoOut
    /\ UNCHANGED <<clock, ticks, punished_users, roles, calls, sweep, sweeps, auditLog, overwrites, race, solo>>

\* line 85: guild.audit_logs raises
GetActorAuditRaise(t) ==
    /\ task[t].pc = "audit_logs"
    /\ out' = [op |-> "_get_actor", guild |-> task[t].guild, member |-> None,
               err |-> "raised"]
    /\ task' = [task EXCEPT ![t] = Idle]
    /\ UNCHANGED <<clock, ticks, punished_users, roles, calls, sweep, sweeps, auditLog, overwrites, race, solo>>

\* _get_actor returns member (None: no actor) to the handler
GetActorReturn(t, member) ==
    /\ out' = [op |-> "_get_actor", guild |-> task[t].guild, member |-> member,
               err |-> None]
    /\ task' = [task EXCEPT ![t] = Idle]

\* lines 85-95: the audit query of line 85 answers from the log, and the
\* loop runs to its first return or await
GetActorScan(t) ==
    /\ task[t].pc = "audit_logs"
    /\ LET entries == AuditLogs(auditLog, task[t].guild, AuditLimit, task[t].action)
           r == ScanEntries(entries, 1, task[t].target, clock)
       IN  IF r.kind = "user"
           THEN /\ task' = [task EXCEPT ![t].pc = "fetch_member", ![t].member = r.id,
                                        ![t].action = None, ![t].target = 0]
                /\ out' = NoOut
           ELSE GetActorReturn(t, r.id)
    /\ UNCHANGED <<clock, ticks, punished_users, roles, calls, sweep, sweeps, auditLog, overwrites, race, solo>>

\* line 92: guild.fetch_member returns the member
GetActorFetched(t) ==
    /\ task[t].pc = "fetch_member"
    /\ GetActorReturn(t, task[t].member)
    /\ UNCHANGED <<clock, ticks, punished_users, roles, calls, sweep, sweeps, auditLog, overwrites, race, solo>>

\* lines 93-94: guild.fetch_member raises NotFound
GetActorNotFound(t) ==
    /\ task[t].pc = "fetch_member"
    /\ GetActorReturn(t, None)
    /\ UNCHANGED <<clock, ticks, punished_users, roles, calls, sweep, sweeps, auditLog, overwrites, race, solo>>

\* line 92: guild.fetch_member raises Forbidden or HTTPException
GetActorRaise(t) ==
    /\ task[t].pc = "fetch_member"
    /\ out' = [op |-> "_get_actor", guild |-> task[t].guild, member |-> None,
               err |-> "raised"]
    /\ task' = [task EXCEPT ![t] = Idle]
    /\ UNCHANGED <<clock, ticks, punished_users, roles, calls, sweep, sweeps, auditLog, overwrites, race, solo>>

NextResolve ==
    \/ \E shape \in Shapes : AuditAppend(shape)
    \/ \E d \in ResolveSteps : ResolveTick(d)
    \/ \E e \in ResolveEvents : GetActorCall(1, e[1], e[2], e[3])
    \/ GetActorAuditRaise(1)
    \/ GetActorScan(1)
    \/ GetActorFetched(1)
    \/ GetActorNotFound(1)
    \/ GetActorRaise(1)

SpecResolve == Init /\ [][NextResolve]_vars

\* ---------- the specification of the command surface ----------
\* the commands are invoked with nobody punished, or with a1 punished in g1
\* at time 0
InitCommands ==
    /\ clock = 0
    /\ ticks = 0
    /\ \E punished \in BOOLEAN :
          /\ punished_users = IF punished
                              THEN <<[id |-> "a1", exp |-> PUNISH_DURATION]>>
                              ELSE <<>>
          /\ roles = [g \in Guilds |-> IF punished /\ g = "g1" THEN {"a1"} ELSE {}]
    /\ task = [t \in Tasks |-> Idle]
    /\ calls = 0
    /\ sweep = Asleep
    /\ sweeps = 0
    /\ out = NoOut
    /\ auditLog = <<>>
    /\ overwrites = [g \in Guilds |-> [ch \in ChannelSet |-> None]]
    /\ solo = NoSolo
    /\ race = NoRace

NextCommands ==
    \/ \E invoker \in {SUPERUSER_ID, "a1"}, g \in CommandGuilds : ping(invoker, g)
    \/ \E t \in Tasks, invoker \in {SUPERUSER_ID, "a1"}, g \in CommandGuilds :
          \/ \E member \in {"a1", "own"} : unpunish(t, invoker, member, g)
          \/ lockdown(t, invoker, g)
          \/ unlockdown(t, invoker, g)
    \/ \E t \in Tasks : RevokeApplied(t)
    \/ \E t \in Tasks, exc \in {"Forbidden", "HTTPException"} : RevokeFailed(t, exc)
    \/ \E t \in Tasks : ReleaseResume(t)
    \/ \E t \in Tasks : PermApplied(t)
    \/ \E t \in Tasks : PermResume(t)
    \/ \E t \in Tasks : PermFailed(t)

SpecCommands == InitCommands /\ [][NextCommands]_vars

\* ---------- the specification of overlapping enforce calls ----------
NextRace ==
    \/ Handlers
    \/ \E d \in TickSteps : Tick(d)

SpecRace == Init /\ [][NextRace]_vars

\* ---------- the timed specification ----------
\* The loop of line 99 runs punish_cleanup once per SweepPeriod, at the times
\* that are multiples of it (line 123 starts it at time 0); a run takes no
\* time on the clock.  Time advances by half a period; once the events have
\* stopped and as long as no entry expires before then, it advances by
\* PUNISH_DURATION less a period at once, the runs in between finding nothing.
\* Events arrive during the first MaxTicks + 1 half periods.
HalfPeriod == SweepPeriod \div 2

LongSleep == PUNISH_DURATION - SweepPeriod

SweepDue == clock % SweepPeriod = 0

AllIdle == \A t \in Tasks : task[t].op = "idle"

LiveDispatch ==
    /\ ticks <= MaxTicks
    /\ \E t \in Tasks, g \in {"g1", "g2"} : on_guild_channel_delete(t, g, 1)

LiveSweep == SweepDue /\ punish_cleanup

\* time passes until something is due
LiveTick ==
    /\ SweepDue => sweeps > 0 /\ sweep.pc = "sleep"
    /\ ticks >= MaxTicks => AllIdle
    /\ ticks > MaxTicks => punished_users # <<>>
    /\ clock' = IF /\ ticks > MaxTicks
                   /\ \A e \in Items(punished_users) : e.exp >= clock + LongSleep
                THEN clock + LongSleep
                ELSE clock + HalfPeriod
    /\ ticks' = ticks + 1
    /\ sweeps' = 0
    /\ out' = NoOut
    /\ UNCHANGED <<punished_users, roles, task, calls, sweep, auditLog, overwrites, race>>
    /\ solo' = NoSolo

NextLive ==
    \/ LiveDispatch
    \/ HandlerSteps
    \/ LiveSweep
    \/ SweepSteps
    \/ LiveTick

\* the event loop runs every coroutine that can go on, the platform answers
\* every call, the loop of line 99 fires when due, and time passes
SpecLive ==
    /\ Init
    /\ [][NextLive]_vars
    /\ WF_vars(HandlerSteps)
    /\ WF_vars(LiveSweep)
    /\ WF_vars(SweepSteps)
    /\ WF_vars(LiveTick)

\* ---------- what the claims speak of ----------
\* an enforce that has passed lines 41-50 and has not returned
PunishPending(t) == task[t].pc \in {"fetch_me", "add_roles", "add_roles_ok"}

\* the member is a bot, the owner of the guild, or the superuser
Exempt(member, g) == IsBot(member) \/ OwnerId(g) = member \/ member = SUPERUSER_ID

SkipReasons ==
    {"Punish role not found.", "Actor is a bot; skipping.",
     "Actor is the guild owner; skipping.", "Actor is the superuser; skipping.",
     "My top role is not above the punish role."}

GrantFailures ==
    {"Missing permissions to assign role.", "HTTP error while assigning role."}

\* the step just taken is the return of an enforce
EnforceReturned(o) == o.op = "event" /\ o.member # None

\* the runs of punish_cleanup in sight: the one under way, the one just reported
Runs == {sweep} \cup (IF out.op = "punish_cleanup" THEN {out.run} ELSE {})

\* C2: an enforce on a bot, on the guild owner or on the superuser never gets
\* to the role grant, returns a skip reason and leaves the ledger and the
\* roles as they were; no ledger entry is ever held by the bot or the superuser
C2_ExemptUntouched ==
    /\ [](\A t \in Tasks :
            PunishPending(t) => ~Exempt(task[t].member, task[t].guild))
    /\ [](EnforceReturned(out) /\ Exempt(out.member, out.guild)
            => out.err \in SkipReasons)
    /\ [](~DictHas(punished_users, "bot") /\ ~DictHas(punished_users, SUPERUSER_ID))
    /\ [][EnforceReturned(out') /\ Exempt(out'.member, out'.guild)
            => punished_users' = punished_users /\ roles' = roles]_vars

C2_Witness ==
    /\ EnforceReturned(out)
    /\ out.member = SUPERUSER_ID
    /\ out.err = "Actor is the superuser; skipping."
    /\ Len(punished_users) > 0

\* C3: the step in which an enforce resumes after its grant leaves exactly one
\* ledger entry for the member, with expiry now + 30 minutes; if the member had
\* an entry, the ledger keeps its size
C3_OneEntryFreshExpiry ==
    [][\A t \in Tasks :
          task[t].pc = "add_roles_ok" /\ task'[t].pc = "idle"
          => /\ DictCount(punished_users', task[t].member) = 1
             /\ DictGet(punished_users', task[t].member) = clock + PUNISH_DURATION
             /\ DictHas(punished_users, task[t].member)
                  => Len(punished_users') = Len(punished_users)]_vars

\* a second enforce has just overwritten an entry written at another time
C3_Witness ==
    /\ EnforceReturned(out)
    /\ out.err = None
    /\ clock > 0
    /\ Len(punished_users) = 1
    /\ DictGet(punished_users, out.member) = clock + PUNISH_DURATION
    /\ out.member \in roles["g1"] \cap roles["g2"]

\* C4: a step that gives a member a ledger entry, or changes the expiry of the
\* one it has, is the resumption of an enforce for that member whose grant the
\* platform has applied
C4_WriteOnlyAfterGrant ==
    [][\A e \in Items(punished_users') \ Items(punished_users) :
          \E t \in Tasks :
             /\ task[t].pc = "add_roles_ok"
             /\ task[t].member = e.id
             /\ task'[t].pc = "idle"]_vars

\* an enforce has resumed and written while another one is still waiting for
\* its grant
C4_Witness ==
    /\ EnforceReturned(out)
    /\ out.err = None
    /\ DictHas(punished_users, out.member)
    /\ \E t \in Tasks : task[t].pc = "add_roles"

\* C5: the step in which a role grant fails returns one of the two failure
\* reasons and leaves the ledger as it was
C5_GrantFailureKeepsLedger ==
    [][\A t \in Tasks :
          task[t].pc = "add_roles" /\ task'[t].pc = "idle"
          => /\ out'.err \in GrantFailures
             /\ punished_users' = punished_users]_vars

\* a grant has failed for a member that keeps its earlier entry
C5_Witness ==
    /\ EnforceReturned(out)
    /\ out.err = "Missing permissions to assign role."
    /\ DictHas(punished_users, out.member)

\* what the release call that solo follows has returned
SoloErr == IF solo.n = 2 THEN solo.err2 ELSE solo.err1

\* C6, as claimed: for any member and guild, after each of two back-to-back
\* release calls the ledger has no entry for the member, the second call
\* returns no error, and a release of a member with neither role nor entry
\* succeeds without a remove_roles call
C6_AsClaimed ==
    /\ solo.pc = "returned" => ~DictHas(punished_users, solo.member)
    /\ solo.pc = "returned" /\ solo.n = 2 => solo.err2 = None
    /\ solo.pc = "returned" /\ solo.bare => SoloErr = None /\ solo.revokes = 0

\* C6, amended: when the first of two back-to-back release calls succeeds, the
\* ledger has no entry for the member after it, the second call issues no
\* remove_roles, returns no error at once and leaves no entry either; in a
\* guild where the punish role resolves, a release of a member with neither
\* role nor entry succeeds without a remove_roles call
C6_ReleaseIdempotent ==
    /\ solo.pc = "returned" /\ solo.err1 = None
         => ~DictHas(punished_users, solo.member)
    /\ solo.n = 2 /\ solo.err1 = None
         => solo.pc = "returned" /\ solo.err2 = None /\ solo.revokes = 0
    /\ solo.pc = "returned" /\ solo.bare /\ RoleResolves(solo.guild)
         => SoloErr = None /\ solo.revokes = 0

\* a member with role and entry has been released twice in a row
C6_Witness ==
    /\ solo.n = 2
    /\ solo.pc = "returned"
    /\ solo.had
    /\ solo.err1 = None
    /\ solo.err2 = None

\* C7: when a run of punish_cleanup that read the clock at run.now is over,
\* every ledger entry expires later than run.now
C7_NoExpiredAfterSweep ==
    out.op = "punish_cleanup" => \A e \in Items(punished_users) : e.exp > out.run.now

\* a run that popped and revoked is over, and an entry written meanwhile stays
C7_Witness ==
    /\ out.op = "punish_cleanup"
    /\ out.run.popped # {}
    /\ out.run.attempts # {}
    /\ Len(punished_users) > 0

\* the pairs <<user, guild>> for which a run issued remove_roles
Attempted(run) == {<<a.id, a.guild>> : a \in run.attempts}

\* the users in the snapshot of a run
Snapshot(run) == {run.expired[n] : n \in 1..Len(run.expired)}

\* C8, as claimed: when a run is over, for every user it popped and every
\* guild the user is a member of, the run issued a remove_roles
C8_AsClaimed ==
    out.op = "punish_cleanup"
    => \A p \in out.run.popped, g \in Guilds :
          p.id \in GuildMembers(g) => <<p.id, g>> \in Attempted(out.run)

\* C8, amended: when a run is over, it has looked at every guild for every
\* user of its snapshot, and it issued a remove_roles for a user in a guild
\* exactly when the user was a member there, the punish role resolved there
\* and the user held it when the run looked
C8_AttemptWhereRoleHeld ==
    out.op = "punish_cleanup"
    => \A uid \in Snapshot(out.run), g \in Guilds :
          /\ \E v \in out.run.seen : v.id = uid /\ v.guild = g
          /\ <<uid, g>> \in Attempted(out.run)
               <=> /\ uid \in GuildMembers(g)
                   /\ RoleResolves(g)
                   /\ [id |-> uid, guild |-> g, held |-> TRUE] \in out.run.seen

\* a run has revoked the role of one user in two guilds
C8_Witness ==
    /\ out.op = "punish_cleanup"
    /\ \E uid \in Users : {<<uid, "g1">>, <<uid, "g2">>} \subseteq Attempted(out.run)

\* C9, as claimed: a run pops no entry whose expiry is later than the time of
\* the pop, and issues no remove_roles for a user who has an unexpired entry
C9_SweepSparesUnexpired ==
    \A run \in Runs :
       /\ \A p \in run.popped : p.exp <= p.at
       /\ \A a \in run.attempts : ~a.live

\* the checks of enforce in the order claimed, and the reason of each
FailsCheck(n, member, g) ==
    CASE n = 1 -> ~RoleResolves(g)
      [] n = 2 -> IsBot(member)
      [] n = 3 -> OwnerId(g) = member
      [] n = 4 -> member = SUPERUSER_ID
      [] OTHER -> \A top \in TopRoles(g) : ~(top > GetRole(g))

ReasonOf(n) ==
    CASE n = 1 -> "Punish role not found."
      [] n = 2 -> "Actor is a bot; skipping."
      [] n = 3 -> "Actor is the guild owner; skipping."
      [] n = 4 -> "Actor is the superuser; skipping."
      [] OTHER -> "My top role is not above the punish role."

Failing(member, g) == {n \in 1..5 : FailsCheck(n, member, g)}

FirstFailing(member, g) ==
    CHOOSE n \in Failing(member, g) : \A m \in Failing(member, g) : n <= m

\* C10: an enforce for which one of the five checks fails returns the reason
\* of the first failing one in the claimed order (or, for the fifth, raises in
\* the lookup of the bot's own member before the check is made), never gets to
\* the role grant, and leaves the ledger and the roles as they were
C10_FirstFailingCheck ==
    /\ [](EnforceReturned(out) /\ Failing(out.member, out.guild) # {}
            => \/ out.err = ReasonOf(FirstFailing(out.member, out.guild))
               \/ /\ FirstFailing(out.member, out.guild) = 5
                  /\ out.err = "raised")
    /\ [](\A t \in Tasks :
            task[t].pc \in {"add_roles", "add_roles_ok"}
            => Failing(task[t].member, task[t].guild) = {})
    /\ [][EnforceReturned(out') /\ Failing(out'.member, out'.guild) # {}
            => punished_users' = punished_users /\ roles' = roles]_vars

\* a bot in a guild without the punish role: the first check decides
C10_Witness ==
    /\ EnforceReturned(out)
    /\ out.member = "bot"
    /\ out.guild = "g4"
    /\ out.err = "Punish role not found."
    /\ Len(punished_users) > 0

\* the bot's top role equal to, and below, the punish role: both are skips
C10_WitnessHierarchy ==
    /\ EnforceReturned(out)
    /\ out.guild = "g3"
    /\ out.err = "My top role is not above the punish role."

\* the places in the log of the entries of guild g and the given action
Mine(g, action) ==
    {n \in 1..Len(auditLog) : auditLog[n].guild = g /\ auditLog[n].action = action}

\* the AuditLimit newest of them
Newest(g, action) ==
    {n \in Mine(g, action) :
        Cardinality({m \in Mine(g, action) : m < n}) < AuditLimit}

\* among those, the entries for the target that are at most 30 seconds old
Hits(g, action, target) ==
    {n \in Newest(g, action) :
        /\ auditLog[n].target = target
        /\ clock - auditLog[n].created_at <= 30}

First(S) == CHOOSE n \in S : \A m \in S : n <= m

\* the audit query of the handler in slot 1 answers in this step
Answered == task[1].pc = "audit_logs" /\ task'[1].pc # "audit_logs" /\ out'.err # "raised"

\* C1, as claimed: the scan takes the user of the first entry, among the 6
\* newest of the guild and action, that is for the target and at most 30
\* seconds old, and _get_actor returns that user; without such an entry it
\* returns none
C1_AsClaimed ==
    [][/\ Answered
          => LET hits == Hits(task[1].guild, task[1].action, task[1].target) IN
             IF hits = {}
             THEN task'[1].pc = "idle" /\ out'.member = None
             ELSE \/ task'[1].pc = "idle" /\ out'.member = auditLog[First(hits)].user
                  \/ /\ task'[1].pc = "fetch_member"
                     /\ task'[1].member = auditLog[First(hits)].user
       /\ task[1].pc = "fetch_member" /\ task'[1].pc # "fetch_member"
          => out'.member = task[1].member]_vars

\* C1, amended: the scan takes the first entry, among the 6 newest of the
\* guild and action, that is for the target, at most 30 seconds old and has a
\* user; _get_actor returns that user if it is a Member, and if it is a bare
\* User the member that guild.fetch_member returns, none if the lookup reports
\* NotFound (any other lookup error is raised); without such an entry it
\* returns none
C1_FirstFreshMatch ==
    [][/\ Answered
          => LET hits == {n \in Hits(task[1].guild, task[1].action, task[1].target) :
                             auditLog[n].kind # "NoUser"}
             IN  IF hits = {}
                 THEN task'[1].pc = "idle" /\ out'.member = None /\ out'.err = None
                 ELSE IF auditLog[First(hits)].kind = "Member"
                 THEN /\ task'[1].pc = "idle"
                      /\ out'.member = auditLog[First(hits)].user
                      /\ out'.err = None
                 ELSE /\ task'[1].pc = "fetch_member"
                      /\ task'[1].member = auditLog[First(hits)].user
       /\ task[1].pc = "fetch_member" /\ task'[1].pc # "fetch_member"
          => \/ out'.member = task[1].member /\ out'.err = None
             \/ out'.member = None /\ out'.err \in {None, "raised"}]_vars

\* with seven entries of the guild and action in the log, the newest for the
\* target and stale, an older one for the target and fresh enough, _get_actor
\* has returned a member
C1_Witness ==
    /\ out.op = "_get_actor"
    /\ out.member # None
    /\ Cardinality(Mine("g1", "channel_delete")) > AuditLimit
    /\ clock > 0

\* C11, as claimed: _get_actor never raises: when the audit query or the
\* member lookup fails, for whatever reason, the handler ends as with no
\* actor resolved, without an error, and the step leaves the ledger and the
\* roles as they were
C11_ResolveNeverRaises ==
    /\ [](out.op = "event" /\ out.member = None => out.err = None)
    /\ [][\A t \in Tasks :
             /\ task[t].pc \in {"audit_logs", "fetch_member"}
             /\ task'[t].pc = "idle"
             /\ out'.member = None
             => punished_users' = punished_users /\ roles' = roles]_vars

\* C12: a command invoked by anyone but the superuser answers with the
\* not-authorized message in the step of its invocation, and that step leaves
\* the ledger, the roles, the channel overwrites and the running coroutines
\* as they were; no coroutine of a command ever runs for such an invoker
C12_NonSuperuserRejected ==
    /\ [](\A t \in Tasks :
            task[t].op \in CommandOps => task[t].invoker = SUPERUSER_ID)
    /\ [][out'.op \in CommandOps /\ out'.invoker # SUPERUSER_ID
            => /\ out'.err = NotAuthorized
               /\ UNCHANGED <<punished_users, roles, overwrites, task>>]_vars

\* a lockdown by a1 has been rejected while a1 is punished, a channel is
\* locked and a command of the superuser is under way
C12_Witness ==
    /\ out.op = "lockdown"
    /\ out.invoker = "a1"
    /\ out.err = NotAuthorized
    /\ DictHas(punished_users, "a1")
    /\ overwrites["g1"]["text"] = "False"
    /\ \E t \in Tasks : task[t].op \in CommandOps

\* C13: when the second of two enforce calls for one member that were both
\* awaiting add_roles has succeeded, in either order and with the clock
\* advancing or not in between, the ledger holds exactly one entry for the
\* member, its expiry is the time of this last write + 30 minutes, and the
\* member holds the role in the guild of either call; while only the first
\* has succeeded there is one entry too, and the role in its guild
C13_OverlapLastWriterWins ==
    /\ race.on
         => /\ DictCount(punished_users, race.member) = 1
            /\ race.member \in roles[race.guild]
    /\ EnforceReturned(out) /\ out.err = None /\ out.raced
         => /\ DictCount(punished_users, out.member) = 1
            /\ DictGet(punished_users, out.member) = clock + PUNISH_DURATION
            /\ out.member \in roles[out.guild] \cap roles[out.peer]

\* two calls in two guilds overlapped, the clock advanced between their
\* completions, and the second has overwritten the expiry of the first
C13_Witness ==
    /\ EnforceReturned(out)
    /\ out.err = None
    /\ out.raced
    /\ out.peer # out.guild
    /\ clock > 0
    /\ ticks = 1
    /\ Len(punished_users) = 1

\* the same, both calls in one guild
C13_WitnessSameGuild ==
    /\ EnforceReturned(out)
    /\ out.err = None
    /\ out.raced
    /\ out.peer = out.guild

\* C14, as claimed: while a run of punish_cleanup is suspended in a platform
\* call, the ledger holds no entry whose expiry is at or before the time the
\* run read: the entries of its snapshot are all popped before its first await
C14_SnapshotPoppedBeforeAwait ==
    sweep.pc \in {"remove_roles", "remove_roles_ok"}
    => \A e \in Items(punished_users) : e.exp > sweep.now

\* C15: a run of punish_cleanup in which a remove_roles raised goes on to its
\* end all the same: for every user of its snapshot it has looked at every
\* guild and issued the revoke wherever the user was a member holding the
\* role, the expired entry of every such user is gone from the ledger, and
\* the loop is asleep until its next run
C15_SweepFailureIsolated ==
    out.op = "punish_cleanup" /\ out.run.failed # {}
    => /\ \A uid \in Snapshot(out.run) :
             /\ ~(DictHas(punished_users, uid) /\ DictGet(punished_users, uid) <= out.run.now)
             /\ \A g \in Guilds :
                   /\ \E v \in out.run.seen : v.id = uid /\ v.guild = g
                   /\ [id |-> uid, guild |-> g, held |-> TRUE] \in out.run.seen
                        /\ uid \in GuildMembers(g) /\ RoleResolves(g)
                        => <<uid, g>> \in Attempted(out.run)
       /\ sweep.pc = "sleep"

\* the revoke for the first user of a snapshot of two raised, and the run
\* has popped the second user and issued a revoke for it too
C15_Witness ==
    /\ out.op = "punish_cleanup"
    /\ Len(out.run.expired) = 2
    /\ \E f \in out.run.failed : f.id = out.run.expired[1]
    /\ \E p \in out.run.popped : p.id = out.run.expired[2]
    /\ \E a \in out.run.attempts : a.id = out.run.expired[2]

\* the run after a step of punish_cleanup: still under way, or just reported
RunAfter == IF out'.op = "punish_cleanup" THEN out'.run ELSE sweep'

\* C16: when a run issues a remove_roles for a user, the expired entry of
\* that user is no longer in the ledger, and the user is one of the run's
\* snapshot; the step in which a remove_roles raises leaves the roles as they
\* were, adds no ledger entry and moves the run on past that user and guild;
\* and the snapshot of a run, the only users it issues revokes for, holds
\* only users with a ledger entry expired at its start
C16_PopFirstNoRetry ==
    /\ [](\A run \in Runs : \A a \in run.attempts :
            /\ a.present => a.live
            /\ a.id \in Snapshot(run))
    /\ [][sweep.pc = "remove_roles" /\ RunAfter.failed # sweep.failed
            => /\ roles' = roles
               /\ Items(punished_users') \subseteq Items(punished_users)
               /\ \/ RunAfter.i > sweep.i
                  \/ RunAfter.i = sweep.i /\ RunAfter.j > sweep.j]_vars
    /\ [][sweep.pc = "sleep" /\ sweeps' # sweeps
            => \A uid \in Snapshot(RunAfter) :
                  /\ DictHas(punished_users, uid)
                  /\ DictGet(punished_users, uid) <= clock]_vars

\* a revoke raised in the first run; the second run, which has just ended,
\* issued no revoke: the user still holds the role and has no ledger entry
C16_Witness ==
    /\ out.op = "punish_cleanup"
    /\ sweeps = 2
    /\ out.run.attempts = {}
    /\ \E f \in out.run.stale :
          /\ f.id \in roles[f.guild]
          /\ ~DictHas(punished_users, f.id)

\* C17: with the loop running punish_cleanup once per period, no ledger
\* entry is still there a full period after its expiry: the first run at or
\* after the expiry removes it; and every entry is eventually removed
C17_EntryEventuallyRemoved ==
    /\ [](\A e \in Items(punished_users) : clock < e.exp + SweepPeriod)
    /\ [](out.op = "punish_cleanup"
            => \A e \in Items(punished_users) : e.exp > out.run.now)
    /\ \A uid \in Users :
          DictHas(punished_users, uid) ~> ~DictHas(punished_users, uid)

\* an entry that expired half a period after a run, which left it alone, has
\* been popped by the next run
C17_Witness ==
    /\ out.op = "punish_cleanup"
    /\ \E p \in out.run.popped : p.at = p.exp + HalfPeriod
    /\ punished_users = <<>>

\* C18, as claimed: a member with a ledger entry holds the punish role in at
\* least one guild; read with the one allowance that a release which has
\* revoked the role and is about to pop the entry is under way for the member
C18_EntryImpliesRole ==
    \A uid \in DictKeys(punished_users) :
       \/ \E g \in Guilds : uid \in roles[g]
       \/ \E t \in Tasks : task[t].op = "unpunish" /\ task[t].member = uid

\* C19: with the clock never going back, no step lowers the expiry of an
\* entry that stays in the ledger, and every expiry written is the time of
\* the write + 30 minutes, so no entry expires later than 30 minutes from now
C19_ExpiryMonotone ==
    /\ [](\A e \in Items(punished_users) : e.exp <= clock + PUNISH_DURATION)
    /\ [][/\ clock' >= clock
          /\ \A uid \in DictKeys(punished_users) \cap DictKeys(punished_users') :
                DictGet(punished_users', uid) >= DictGet(punished_users, uid)
          /\ \A e \in Items(punished_users') \ Items(punished_users) :
                e.exp <= clock' + PUNISH_DURATION]_vars

\* an enforce has replaced an expiry by a later one
C19_Witness ==
    /\ EnforceReturned(out)
    /\ out.err = None
    /\ out.prev >= 0
    /\ DictGet(punished_users, out.member) > out.prev

ReleaseErrors ==
    {"Punish role not found.", "Missing permissions to remove role.",
     "HTTP error while removing role."}

\* C20: the step in which a release returns an error leaves the ledger as it
\* was; and a run of punish_cleanup takes into its snapshot every entry that
\* is in the ledger with its expiry reached when the run starts, the entry
\* of such a release among them
C20_FailedReleaseKeepsEntry ==
    /\ [](out.op = "unpunish" /\ out.invoker = SUPERUSER_ID /\ out.err # None
            => out.err \in ReleaseErrors)
    /\ [][out'.op = "unpunish" /\ out'.err # None
            => punished_users' = punished_users]_vars
    /\ [][sweep.pc = "sleep" /\ sweeps' # sweeps
            => Snapshot(RunAfter) =
                 {e.id : e \in {x \in Items(punished_users) : x.exp <= clock}}]_vars

\* the revoke of a release was rejected after the expiry of the member's
\* entry; the entry is still there for the next run
C20_Witness ==
    /\ out.op = "unpunish"
    /\ out.err = "Missing permissions to remove role."
    /\ DictHas(punished_users, out.member)
    /\ DictGet(punished_users, out.member) <= clock
    /\ sweep.pc = "sleep"

\* a release in the guild without the punish role, the member's entry kept
C20_WitnessNoRole ==
    /\ out.op = "unpunish"
    /\ out.err = "Punish role not found."
    /\ DictHas(punished_users, out.member)

====
